---- MODULE Spec2Model ----
(***************************************************************************)
(* figaro: the incremental figure builder of src/figaro/figarocli.py.      *)
(* One run of main() is modelled step by step (validation and store load,  *)
(* discovery, loading of a script, evaluation of one tagged function,      *)
(* cleanup of the output directory, writing of the metadata file); between *)
(* runs the operator may edit a script, delete a figure or edit the        *)
(* metadata file.                                                          *)
(***************************************************************************)
EXTENDS Integers, Sequences, FiniteSets, TLC

VARIABLES
    src,        \* script file -> content (an index of Catalogue)
    outDir,     \* what is at args.out: "absent", "dir" or "file"
    entries,    \* names of the regular files inside the output directory
    disk,       \* the metadata file: [state, store]
    args,       \* the parsed command line of the current run
    meta,       \* meta_content, the in-memory store of the current run
    gens,       \* fig_generators, in insertion order
    i,          \* position of the outer loop in gens
    j,          \* position of the inner loop in gens[i].names
    pc,         \* where main() stands
    exit,       \* how the last finished run ended
    loaded,     \* scripts executed by exec_module in this run
    invoked,    \* <<file, function>> pairs called in this run
    decision,   \* what the last evaluated function came to
    reported,   \* <<file, function, kind>> errors printed in this run
    created,    \* every generator called in this run left a file at its path
    disk0,      \* the metadata file as it was when this run started
    dir0,       \* the output directory as it was when this run started
    settled,    \* the run before this one ended normally, its generators all left
                \* their file, and nothing was changed before this run started
    origin,     \* [toolOnly, made]: as long as nothing but figaro has touched the
                \* output directory and the metadata file since both were absent,
                \* made holds <<entry, file, function, digest>>: the call that
                \* wrote the entry and the digest its script had then
    runs,       \* runs started so far
    edits       \* changes made by the operator so far

vars == <<src, outDir, entries, disk, args, meta, gens, i, j, pc, exit, loaded,
          invoked, decision, reported, created, disk0, dir0, settled,
          origin, runs, edits>>

\* Bounds of the exploration.
MaxRuns == 2
MaxEdits == 1

(***************************************************************************)
(* Scripts.  A script is a sequence of top-level definitions; a definition *)
(* has a name, the number of decorators that are calls of a bare name      *)
(* `figarotag`, its parameters, whether the decorator was figaro's own     *)
(* (which sets _figaroname and _figaroext), the decorator's arguments and  *)
(* the definitions nested in its body.                                     *)
(***************************************************************************)
Def(name, tags, nparams, annot, attrs, base, ext, body) ==
    [name |-> name, tags |-> tags, nparams |-> nparams, annot |-> annot,
     attrs |-> attrs, base |-> base, ext |-> ext, body |-> body]

Gen(name) == Def(name, 1, 1, "Path", TRUE, "", "", <<>>)
Helper(name) == Def(name, 0, 2, "int", FALSE, "", "", <<>>)

Catalogue ==
    << \* 1: one tagged generator and an untagged helper
       [bytes |-> "one", parses |-> TRUE, defs |-> <<Helper("util"), Gen("r1")>>],
       \* 2: two tagged generators
       [bytes |-> "two", parses |-> TRUE, defs |-> <<Gen("r1"), Gen("r2")>>],
       \* 3: the same two generators, bodies edited
       [bytes |-> "two'", parses |-> TRUE, defs |-> <<Gen("r1"), Gen("r2")>>],
       \* 4: a tagged function of two parameters before a good generator
       [bytes |-> "sig", parses |-> TRUE,
        defs |-> <<Def("r3", 1, 2, "Path", TRUE, "", "", <<>>), Gen("r1")>>],
       \* 5: a tagged function nested in an untagged one, before a good generator
       [bytes |-> "nested", parses |-> TRUE,
        defs |-> <<Def("outer", 0, 0, "", FALSE, "", "", <<Gen("inner")>>), Gen("r1")>>],
       \* 6: tagged with a foreign decorator that happens to be called figarotag
       [bytes |-> "foreign", parses |-> TRUE,
        defs |-> <<Def("r1", 1, 1, "Path", FALSE, "", "", <<>>)>>],
       \* 7: not valid Python
       [bytes |-> "broken", parses |-> FALSE, defs |-> <<>>],
       \* 8: a generator decorated twice, with name and extension given
       [bytes |-> "twice", parses |-> TRUE,
        defs |-> <<Def("r1", 2, 1, "Path", TRUE, "curve", "png", <<>>)>>],
       \* 9: a single generator of its own
       [bytes |-> "other", parses |-> TRUE, defs |-> <<Gen("s1")>>],
       \* 10: the same generator, body edited
       [bytes |-> "other'", parses |-> TRUE, defs |-> <<Gen("s1")>>],
       \* 11: no tagged function at all
       [bytes |-> "plain", parses |-> TRUE, defs |-> <<Helper("util")>>] >>

Files == <<"a.py", "b.py">>
FileSet == {Files[k] : k \in 1..Len(Files)}

AContents == 1..8
BContents == {9, 10, 11}
InitB == CHOOSE c \in BContents : \A d \in BContents : c <= d
ContentsOf(f) == IF f = "a.py" THEN AContents ELSE BContents

\* checksum(): the digest of the file's bytes (SHA-256 taken as collision free).
Digest(bytes) == "sha256:" \o bytes
checksum(f) == Digest(Catalogue[src[f]].bytes)

\* FigCtlTagFilter: every FunctionDef at any depth, in source order, once per
\* matching decorator.
RECURSIVE Repeat(_, _)
Repeat(x, n) == IF n = 0 THEN <<>> ELSE <<x>> \o Repeat(x, n - 1)

RECURSIVE visit(_)
visit(defs) ==
    IF Len(defs) = 0 THEN <<>>
    ELSE Repeat(Head(defs).name, Head(defs).tags)
         \o visit(Head(defs).body) \o visit(Tail(defs))

tagged_functions(c) == visit(Catalogue[c].defs)

\* hasattr(module, fnc) / getattr(module, fnc): the module's attributes are its
\* top-level definitions.
hasattr(c, fnc) == \E k \in 1..Len(Catalogue[c].defs) : Catalogue[c].defs[k].name = fnc
getattr(c, fnc) ==
    LET ks == {k \in 1..Len(Catalogue[c].defs) : Catalogue[c].defs[k].name = fnc}
    IN Catalogue[c].defs[CHOOSE k \in ks : \A m \in ks : m <= k]

\* A variant that looks at the annotation of the first parameter only.
SignatureOk_AnnotationOnly(g) == g.annot = "Path"

\* The signature check: exactly one parameter, annotated pathlib.Path.
SignatureOk(g) == g.nparams = 1 /\ g.annot = "Path"

\* figarotag's defaults and save_path = args.out / (file_name + "." + file_ext).
figaroname(g) == IF g.base = "" THEN g.name ELSE g.base
figaroext(g) == IF g.ext = "" THEN "pdf" ELSE g.ext
SavePath(g) == figaroname(g) \o "." \o figaroext(g)

(***************************************************************************)
(* The store.  A record of the JSON object is kept per script, with the    *)
(* presence of the record and of each of its two fields made explicit.     *)
(***************************************************************************)
NoRec == [present |-> FALSE, hasC |-> FALSE, checksum |-> "", hasD |-> FALSE,
          dependents |-> <<>>]
EmptyStore == [f \in FileSet |-> NoRec]
InSeq(x, s) == \E k \in 1..Len(s) : s[k] = x

\* str(save_path.resolve()): the absolute form kept in `dependents`.
Resolved(path) == "/cwd/figures/" \o path

\* Variants of the staleness decision, each with one plausible slip.
\* The stored checksum is never taken as current.
Evaluate_NoCompare(rec, h, force, isfile, path) ==
    IF rec.present /\ rec.hasC /\ rec.hasD
    THEN [decision |-> "run",
          rec |-> [rec EXCEPT !.checksum = h,
                              !.dependents = IF InSeq(Resolved(path), @) THEN @
                                             ELSE Append(@, Resolved(path))]]
    ELSE IF rec.present
    THEN [decision |-> "corrupt", rec |-> rec]
    ELSE [decision |-> "run",
          rec |-> [present |-> TRUE, hasC |-> TRUE, checksum |-> h, hasD |-> TRUE,
                   dependents |-> <<Resolved(path)>>]]

\* An equal checksum skips, whether or not the figure is there.
Evaluate_NoArtifactCheck(rec, h, force, isfile, path) ==
    IF rec.present
    THEN IF ~rec.hasC
         THEN [decision |-> "corrupt", rec |-> rec]
         ELSE LET same == rec.checksum = h /\ ~force
                  rec1 == IF same THEN rec ELSE [rec EXCEPT !.checksum = h]
              IN IF same
                 THEN [decision |-> "skip", rec |-> rec]
                 ELSE IF ~rec1.hasD
                      THEN [decision |-> "corrupt", rec |-> rec1]
                      ELSE [decision |-> "run",
                            rec |-> [rec1 EXCEPT !.dependents =
                                        IF InSeq(Resolved(path), @) THEN @
                                        ELSE Append(@, Resolved(path))]]
    ELSE [decision |-> "run",
          rec |-> [present |-> TRUE, hasC |-> TRUE, checksum |-> h, hasD |-> TRUE,
                   dependents |-> <<Resolved(path)>>]]

\* --force is not looked at.
Evaluate_IgnoreForce(rec, h, force, isfile, path) ==
    IF rec.present
    THEN IF ~rec.hasC
         THEN [decision |-> "corrupt", rec |-> rec]
         ELSE LET same == rec.checksum = h
                  rec1 == IF same THEN rec ELSE [rec EXCEPT !.checksum = h]
              IN IF same /\ isfile
                 THEN [decision |-> "skip", rec |-> rec]
                 ELSE IF ~rec1.hasD
                      THEN [decision |-> "corrupt", rec |-> rec1]
                      ELSE [decision |-> "run",
                            rec |-> [rec1 EXCEPT !.dependents =
                                        IF InSeq(Resolved(path), @) THEN @
                                        ELSE Append(@, Resolved(path))]]
    ELSE [decision |-> "run",
          rec |-> [present |-> TRUE, hasC |-> TRUE, checksum |-> h, hasD |-> TRUE,
                   dependents |-> <<Resolved(path)>>]]

\* A changed checksum runs the generator but is not written back.
Evaluate_KeepChecksum(rec, h, force, isfile, path) ==
    IF rec.present
    THEN IF ~rec.hasC
         THEN [decision |-> "corrupt", rec |-> rec]
         ELSE LET same == rec.checksum = h /\ ~force
              IN IF same /\ isfile
                 THEN [decision |-> "skip", rec |-> rec]
                 ELSE IF ~rec.hasD
                      THEN [decision |-> "corrupt", rec |-> rec]
                      ELSE [decision |-> "run",
                            rec |-> [rec EXCEPT !.dependents =
                                        IF InSeq(Resolved(path), @) THEN @
                                        ELSE Append(@, Resolved(path))]]
    ELSE [decision |-> "run",
          rec |-> [present |-> TRUE, hasC |-> TRUE, checksum |-> h, hasD |-> TRUE,
                   dependents |-> <<Resolved(path)>>]]

\* A changed checksum starts the dependents afresh.
Evaluate_ResetDependents(rec, h, force, isfile, path) ==
    IF rec.present
    THEN IF ~rec.hasC
         THEN [decision |-> "corrupt", rec |-> rec]
         ELSE LET same == rec.checksum = h /\ ~force
                  rec1 == IF same THEN rec ELSE [rec EXCEPT !.checksum = h]
              IN IF same /\ isfile
                 THEN [decision |-> "skip", rec |-> rec]
                 ELSE IF ~rec1.hasD
                      THEN [decision |-> "corrupt", rec |-> rec1]
                      ELSE [decision |-> "run",
                            rec |-> [rec1 EXCEPT !.dependents =
                                        IF same
                                        THEN IF InSeq(Resolved(path), @) THEN @
                                             ELSE Append(@, Resolved(path))
                                        ELSE <<Resolved(path)>>]]
    ELSE [decision |-> "run",
          rec |-> [present |-> TRUE, hasC |-> TRUE, checksum |-> h, hasD |-> TRUE,
                   dependents |-> <<Resolved(path)>>]]

\* The figure's path is appended without looking for it first.
Evaluate_AlwaysAppend(rec, h, force, isfile, path) ==
    IF rec.present
    THEN IF ~rec.hasC
         THEN [decision |-> "corrupt", rec |-> rec]
         ELSE LET same == rec.checksum = h /\ ~force
                  rec1 == IF same THEN rec ELSE [rec EXCEPT !.checksum = h]
              IN IF same /\ isfile
                 THEN [decision |-> "skip", rec |-> rec]
                 ELSE IF ~rec1.hasD
                      THEN [decision |-> "corrupt", rec |-> rec1]
                      ELSE [decision |-> "run",
                            rec |-> [rec1 EXCEPT !.dependents =
                                        Append(@, Resolved(path))]]
    ELSE [decision |-> "run",
          rec |-> [present |-> TRUE, hasC |-> TRUE, checksum |-> h, hasD |-> TRUE,
                   dependents |-> <<Resolved(path)>>]]

\* The figure's path is recorded as given, not resolved.
Evaluate_RelativePath(rec, h, force, isfile, path) ==
    IF rec.present
    THEN IF ~rec.hasC
         THEN [decision |-> "corrupt", rec |-> rec]
         ELSE LET same == rec.checksum = h /\ ~force
                  rec1 == IF same THEN rec ELSE [rec EXCEPT !.checksum = h]
              IN IF same /\ isfile
                 THEN [decision |-> "skip", rec |-> rec]
                 ELSE IF ~rec1.hasD
                      THEN [decision |-> "corrupt", rec |-> rec1]
                      ELSE [decision |-> "run",
                            rec |-> [rec1 EXCEPT !.dependents =
                                        IF InSeq(path, @) THEN @
                                        ELSE Append(@, path)]]
    ELSE [decision |-> "run",
          rec |-> [present |-> TRUE, hasC |-> TRUE, checksum |-> h, hasD |-> TRUE,
                   dependents |-> <<path>>]]

\* A skipped function still has its figure recorded.
Evaluate_SkipRecords(rec, h, force, isfile, path) ==
    IF rec.present
    THEN IF ~rec.hasC
         THEN [decision |-> "corrupt", rec |-> rec]
         ELSE LET same == rec.checksum = h /\ ~force
                  rec1 == IF same THEN rec ELSE [rec EXCEPT !.checksum = h]
              IN IF same /\ isfile
                 THEN [decision |-> "skip",
                       rec |-> [rec EXCEPT !.hasD = TRUE,
                                           !.dependents =
                                              IF InSeq(Resolved(path), @) THEN @
                                              ELSE Append(@, Resolved(path))]]
                 ELSE IF ~rec1.hasD
                      THEN [decision |-> "corrupt", rec |-> rec1]
                      ELSE [decision |-> "run",
                            rec |-> [rec1 EXCEPT !.dependents =
                                        IF InSeq(Resolved(path), @) THEN @
                                        ELSE Append(@, Resolved(path))]]
    ELSE [decision |-> "run",
          rec |-> [present |-> TRUE, hasC |-> TRUE, checksum |-> h, hasD |-> TRUE,
                   dependents |-> <<Resolved(path)>>]]

\* Lines 225-267: what the metadata says about one function of a script whose
\* record is rec, whose digest is h and whose figure is (not) a file at path.
\* The result is what main() does next and the record it leaves in meta_content.
Evaluate(rec, h, force, isfile, path) ==
    IF rec.present
    THEN IF ~rec.hasC
         THEN [decision |-> "corrupt", rec |-> rec]
         ELSE LET same == rec.checksum = h /\ ~force
                  rec1 == IF same THEN rec ELSE [rec EXCEPT !.checksum = h]
              IN IF same /\ isfile
                 THEN [decision |-> "skip", rec |-> rec]
                 ELSE IF ~rec1.hasD
                      THEN [decision |-> "corrupt", rec |-> rec1]
                      ELSE [decision |-> "run",
                            rec |-> [rec1 EXCEPT !.dependents =
                                        IF InSeq(Resolved(path), @) THEN @
                                        ELSE Append(@, Resolved(path))]]
    ELSE [decision |-> "run",
          rec |-> [present |-> TRUE, hasC |-> TRUE, checksum |-> h, hasD |-> TRUE,
                   dependents |-> <<Resolved(path)>>]]

\* save_path.exists() and save_path.is_file()
IsFile(path) == outDir = "dir" /\ path \in entries

RootKinds == {"dir", "missing", "file"}
Outcomes == {"file", "nothing", "raise"}

\* What an earlier run over scripts 2 and 9 wrote.
InitStore ==
    [EmptyStore EXCEPT
        !["a.py"] = [present |-> TRUE, hasC |-> TRUE, checksum |-> Digest("two"),
                     hasD |-> TRUE,
                     dependents |-> <<Resolved("r1.pdf"), Resolved("r2.pdf")>>],
        !["b.py"] = [present |-> TRUE, hasC |-> TRUE, checksum |-> Digest("other"),
                     hasD |-> TRUE, dependents |-> <<Resolved("s1.pdf")>>]]

InitDisks ==
    {[state |-> "absent", store |-> EmptyStore],
     [state |-> "garbage", store |-> EmptyStore],
     [state |-> "json", store |-> InitStore]}

InitDirs ==
    {[state |-> "absent", entries |-> {}],
     [state |-> "file", entries |-> {}],
     [state |-> "dir", entries |-> {}],
     [state |-> "dir", entries |-> {"r1.pdf", "r2.pdf", "s1.pdf"}]}

\* The history of the output directory is not known.
Untracked == [toolOnly |-> FALSE, made |-> {}]

NoArgs == [dir |-> "dir", force |-> FALSE, gitignore |-> FALSE]

Init ==
    /\ src \in [FileSet -> 1..Len(Catalogue)]
    /\ src["a.py"] \in AContents
    /\ src["b.py"] = InitB
    /\ \E d \in InitDirs : outDir = d.state /\ entries = d.entries
    /\ disk \in InitDisks
    /\ args = NoArgs
    /\ meta = EmptyStore
    /\ gens = <<>>
    /\ i = 1
    /\ j = 1
    /\ pc = "idle"
    /\ exit = "none"
    /\ loaded = {}
    /\ invoked = {}
    /\ decision = "none"
    /\ reported = {}
    /\ created = TRUE
    /\ disk0 = disk
    /\ dir0 = [state |-> outDir, entries |-> entries]
    /\ settled = FALSE
    /\ origin = IF disk.state = "absent" /\ entries = {}
                THEN [toolOnly |-> TRUE, made |-> {}]
                ELSE Untracked
    /\ runs = 0
    /\ edits = 0

\* Lines 98-131: the search directories are validated, the output directory is
\* created when missing and must be a directory, the metadata file is loaded.
Validate ==
    /\ pc = "idle"
    /\ runs < MaxRuns
    /\ \E root \in RootKinds, force \in BOOLEAN, gitignore \in BOOLEAN :
          LET made == IF outDir = "absent" THEN "dir" ELSE outDir
          IN \* a run that ends before it reads the two flags is taken without them
             /\ \/ root # "dir" \/ made # "dir" \/ disk.state = "garbage"
                \/ \E f \in FileSet : ~Catalogue[src[f]].parses
                => ~force /\ ~gitignore
             /\ args' = [dir |-> root, force |-> force, gitignore |-> gitignore]
             /\ IF root # "dir"
                THEN /\ exit' = "exit1"
                     /\ pc' = "idle"
                     /\ UNCHANGED outDir
                     /\ meta' = EmptyStore
                ELSE /\ outDir' = made
                     /\ IF made # "dir"
                        THEN exit' = "exit1" /\ pc' = "idle" /\ meta' = EmptyStore
                        ELSE IF disk.state = "garbage"
                        THEN exit' = "badstore" /\ pc' = "idle" /\ meta' = EmptyStore
                        ELSE /\ exit' = "running"
                             /\ pc' = "discover"
                             /\ meta' = IF disk.state = "json" THEN disk.store
                                        ELSE EmptyStore
    /\ runs' = runs + 1
    /\ gens' = <<>>
    /\ i' = 1
    /\ j' = 1
    /\ loaded' = {}
    /\ invoked' = {}
    /\ decision' = "none"
    /\ reported' = {}
    /\ created' = TRUE
    /\ disk0' = disk
    /\ dir0' = [state |-> outDir, entries |-> entries]
    /\ settled' = (exit = "ok" /\ created)
    /\ UNCHANGED <<src, entries, disk, origin, edits>>

\* Lines 140-167: every script is parsed; the ones with tagged functions are kept.
Discovered ==
    LET found == [k \in 1..Len(Files) |->
                     [file |-> Files[k], names |-> tagged_functions(src[Files[k]])]]
    IN SelectSeq(found, LAMBDA e : Len(e.names) > 0)

Discover ==
    /\ pc = "discover"
    /\ IF \E f \in FileSet : ~Catalogue[src[f]].parses
       THEN exit' = "syntax" /\ pc' = "idle" /\ UNCHANGED gens
       ELSE /\ gens' = Discovered
            /\ pc' = IF Len(Discovered) = 0 THEN "cleanup" ELSE "load"
            /\ UNCHANGED exit
    /\ UNCHANGED <<src, outDir, entries, disk, args, meta, i, j, loaded, invoked,
                   decision, reported, created, disk0, dir0, settled,
                   origin, runs, edits>>

\* Lines 175-186: the script is imported, which executes it.
LoadUnit ==
    /\ pc = "load"
    /\ loaded' = loaded \cup {gens[i].file}
    /\ j' = 1
    /\ pc' = "eval"
    /\ UNCHANGED <<src, outDir, entries, disk, args, meta, gens, i, exit, invoked,
                   decision, reported, created, disk0, dir0, settled,
                   origin, runs, edits>>

\* The loops of lines 175 and 188 move on.
Continue ==
    /\ IF j < Len(gens[i].names)
       THEN pc' = "eval" /\ j' = j + 1 /\ i' = i
       ELSE IF i < Len(gens)
       THEN pc' = "load" /\ i' = i + 1 /\ j' = 1
       ELSE pc' = "cleanup" /\ UNCHANGED <<i, j>>
    /\ UNCHANGED <<exit, disk>>

\* A variant that saves the store on the way out of a failing run.
Abort_Saving(how) ==
    /\ pc' = "idle"
    /\ exit' = how
    /\ disk' = [state |-> "json", store |-> meta']
    /\ UNCHANGED <<i, j>>

\* An uncaught exception ends the process where it stands: nothing is cleaned
\* up and nothing is written.
Abort(how) == pc' = "idle" /\ exit' = how /\ UNCHANGED <<i, j, disk>>

\* Lines 188-276: one pass of the inner loop, the call of the generator included.
EvalRoutine ==
    /\ pc = "eval"
    /\ LET f == gens[i].file
           fnc == gens[i].names[j]
           c == src[f]
       IN IF ~hasattr(c, fnc)
          THEN \* line 189 prints, line 193 raises AttributeError
               /\ reported' = reported \cup {<<f, fnc, "notfound">>}
               /\ decision' = "crash"
               /\ Abort("attr")
               /\ UNCHANGED <<meta, entries, origin, invoked, created>>
          ELSE LET g == getattr(c, fnc)
               IN IF ~SignatureOk(g)
                  THEN /\ reported' = reported \cup {<<f, fnc, "signature">>}
                       /\ decision' = "invalid"
                       /\ Continue
                       /\ UNCHANGED <<meta, entries, origin, invoked, created>>
                  ELSE IF ~g.attrs
                  THEN \* line 208 prints, line 212 raises AttributeError
                       /\ reported' = reported \cup {<<f, fnc, "noattr">>}
                       /\ decision' = "crash"
                       /\ Abort("attr")
                       /\ UNCHANGED <<meta, entries, origin, invoked, created>>
                  ELSE LET path == SavePath(g)
                           ev == Evaluate(meta[f], checksum(f), args.force,
                                          IsFile(path), path)
                       IN /\ meta' = [meta EXCEPT ![f] = ev.rec]
                          /\ decision' = ev.decision
                          /\ IF ev.decision = "corrupt"
                             THEN /\ reported' = reported \cup {<<f, fnc, "corrupt">>}
                                  /\ Continue
                                  /\ UNCHANGED <<entries, origin, invoked, created>>
                             ELSE IF ev.decision = "skip"
                             THEN /\ Continue
                                  /\ UNCHANGED <<entries, origin, invoked, created, reported>>
                             ELSE \* line 272: fig_gen(save_path)
                                  /\ invoked' = invoked \cup {<<f, fnc>>}
                                  /\ UNCHANGED reported
                                  /\ \E o \in Outcomes :
                                        /\ entries' = IF o = "file"
                                                      THEN entries \cup {path}
                                                      ELSE entries
                                        /\ origin' = IF o = "file" /\ origin.toolOnly
                                                     THEN [origin EXCEPT !.made =
                                                             {t \in @ : t[1] # path} \cup
                                                             {<<path, f, fnc, checksum(f)>>}]
                                                     ELSE origin
                                        /\ created' = (created /\ o = "file")
                                        /\ IF o = "raise"
                                           THEN Abort("raised")
                                           ELSE Continue
    /\ UNCHANGED <<src, outDir, args, gens, loaded, disk0, dir0, settled, runs,
                   edits>>

\* A variant that leaves an empty output directory in place.
Cleanup_KeepEmptyDir ==
    /\ pc = "cleanup"
    /\ entries' = IF args.gitignore /\ entries # {} THEN entries \cup {".gitignore"}
                  ELSE entries
    /\ UNCHANGED outDir
    /\ pc' = "persist"
    /\ UNCHANGED <<src, disk, args, meta, gens, i, j, exit, loaded, invoked,
                   decision, reported, created, disk0, dir0, settled,
                   origin, runs, edits>>

\* A variant that writes .gitignore into every non-empty output directory.
Cleanup_MarkAlways ==
    /\ pc = "cleanup"
    /\ IF entries = {}
       THEN outDir' = "absent" /\ UNCHANGED entries
       ELSE entries' = entries \cup {".gitignore"} /\ UNCHANGED outDir
    /\ pc' = "persist"
    /\ UNCHANGED <<src, disk, args, meta, gens, i, j, exit, loaded, invoked,
                   decision, reported, created, disk0, dir0, settled,
                   origin, runs, edits>>

\* Lines 283-289: an empty output directory is removed; otherwise .gitignore is
\* written on request.
Cleanup ==
    /\ pc = "cleanup"
    /\ IF entries = {}
       THEN outDir' = "absent" /\ UNCHANGED entries
       ELSE /\ entries' = IF args.gitignore THEN entries \cup {".gitignore"}
                          ELSE entries
            /\ UNCHANGED outDir
    /\ pc' = "persist"
    /\ UNCHANGED <<src, disk, args, meta, gens, i, j, exit, loaded, invoked,
                   decision, reported, created, disk0, dir0, settled,
                   origin, runs, edits>>

\* Lines 294-295: meta_content is written over the metadata file.
Persist ==
    /\ pc = "persist"
    /\ disk' = [state |-> "json", store |-> meta]
    /\ pc' = "idle"
    /\ exit' = "ok"
    /\ UNCHANGED <<src, outDir, entries, args, meta, gens, i, j, loaded, invoked,
                   decision, reported, created, disk0, dir0, settled,
                   origin, runs, edits>>

\* The process of the last run is gone: between runs only the file system is left.
Forget ==
    /\ args' = NoArgs
    /\ meta' = EmptyStore
    /\ gens' = <<>>
    /\ i' = 1
    /\ j' = 1
    /\ exit' = "none"
    /\ loaded' = {}
    /\ invoked' = {}
    /\ decision' = "none"
    /\ reported' = {}
    /\ created' = TRUE
    /\ disk0' = disk'
    /\ dir0' = [state |-> outDir', entries |-> entries']
    /\ settled' = FALSE
    /\ edits' = edits + 1
    /\ UNCHANGED <<pc, runs>>

\* Between runs: the operator edits a script.
EditSource ==
    /\ pc = "idle"
    /\ edits < MaxEdits
    /\ runs < MaxRuns
    /\ \E f \in FileSet, c \in 1..Len(Catalogue) :
          /\ c \in ContentsOf(f)
          /\ c # src[f]
          /\ src' = [src EXCEPT ![f] = c]
    /\ UNCHANGED <<outDir, entries, disk, origin>>
    /\ Forget

\* Between runs: the operator deletes a file of the output directory.
DeleteArtifact ==
    /\ pc = "idle"
    /\ edits < MaxEdits
    /\ runs < MaxRuns
    /\ \E p \in entries :
          /\ entries' = entries \ {p}
          /\ origin' = Untracked
    /\ UNCHANGED <<src, outDir, disk>>
    /\ Forget

\* Between runs: the operator edits the metadata file by hand: a field of a
\* record is lost, a record is replaced by one of an older version, or the file
\* is left unparsable.
Damaged(rec) ==
    {[rec EXCEPT !.hasC = FALSE, !.checksum = ""],
     [rec EXCEPT !.hasD = FALSE, !.dependents = <<>>],
     [rec EXCEPT !.checksum = Digest("old"), !.hasD = FALSE, !.dependents = <<>>]}

EditStore ==
    /\ pc = "idle"
    /\ edits < MaxEdits
    /\ runs < MaxRuns
    /\ disk.state = "json"
    /\ \/ disk' = [state |-> "garbage", store |-> EmptyStore]
       \/ \E f \in FileSet :
             /\ disk.store[f].present
             /\ \E rec \in Damaged(disk.store[f]) :
                   /\ rec # disk.store[f]
                   /\ disk' = [disk EXCEPT !.store[f] = rec]
    /\ origin' = Untracked
    /\ UNCHANGED <<src, outDir, entries>>
    /\ Forget

Next ==
    \/ Validate
    \/ Discover
    \/ LoadUnit
    \/ EvalRoutine
    \/ Cleanup
    \/ Persist
    \/ EditSource
    \/ DeleteArtifact
    \/ EditStore

Spec == Init /\ [][Next]_vars

TypeOK ==
    /\ pc \in {"idle", "discover", "load", "eval", "cleanup", "persist"}
    /\ exit \in {"none", "running", "ok", "exit1", "badstore", "syntax", "attr", "raised"}
    /\ outDir \in {"absent", "dir", "file"}
    /\ outDir # "dir" => entries = {}
    /\ {t[1] : t \in origin.made} \subseteq entries
    /\ \A t, u \in origin.made : t[1] = u[1] => t = u
    /\ ~origin.toolOnly => origin.made = {}

(***************************************************************************)
(* Vocabulary of the properties.                                           *)
(***************************************************************************)
\* The tagged functions of script f, as <<file, name>> pairs.
Tagged(f) ==
    {<<f, tagged_functions(src[f])[k]>> : k \in 1..Len(tagged_functions(src[f]))}
AllTagged == UNION {Tagged(f) : f \in FileSet}

\* r resolves to a module attribute that carries figarotag's two attributes.
Resolves(r) == hasattr(src[r[1]], r[2]) /\ getattr(src[r[1]], r[2]).attrs
\* r is a routine the signature check lets through.
Valid(r) == Resolves(r) /\ SignatureOk(getattr(src[r[1]], r[2]))
PathOf(r) == SavePath(getattr(src[r[1]], r[2]))

WellFormed(rec) == rec.present /\ rec.hasC /\ rec.hasD
Corrupt(rec) == rec.present /\ ~(rec.hasC /\ rec.hasD)
\* Same keys, same checksum per key, same dependents per key.
SameRecord(r1, r2) ==
    /\ r1.present = r2.present
    /\ r1.hasC = r2.hasC /\ r1.checksum = r2.checksum
    /\ r1.hasD = r2.hasD
    /\ {r1.dependents[k] : k \in 1..Len(r1.dependents)}
         = {r2.dependents[k] : k \in 1..Len(r2.dependents)}
SameStore(s1, s2) == \A f \in FileSet : SameRecord(s1[f], s2[f])

\* The routine the inner loop stands at.
Cur == <<gens[i].file, gens[i].names[j]>>

\* The run has ended, and how.
Ended == pc = "idle" /\ exit \notin {"none", "running"}
EndedOk == pc = "idle" /\ exit = "ok"

(***************************************************************************)
(* C1  Change detection.  When a run without --force ends normally, every  *)
(* signature-valid tagged routine of every script whose well-formed record *)
(* held another checksum than the script's digest when the run started has *)
(* been invoked, the second and later routines of a script and the         *)
(* routines whose figure already existed included.                         *)
(***************************************************************************)
Changed0(f) ==
    /\ disk0.state = "json"
    /\ WellFormed(disk0.store[f])
    /\ disk0.store[f].checksum # checksum(f)

C1_ChangeDetection ==
    (EndedOk /\ ~args.force) =>
        \A f \in FileSet : Changed0(f) =>
            \A r \in Tagged(f) : Valid(r) => r \in invoked

(***************************************************************************)
(* C2  Idempotence.  When a run ended normally, each generator it called   *)
(* left its file, and nothing was changed afterwards, a following run      *)
(* without --force that ends normally has invoked nothing and has written  *)
(* a store with the same keys, the same checksum per key and the same      *)
(* dependents per key as the store it found.                               *)
(***************************************************************************)
C2_Idempotence ==
    (EndedOk /\ settled /\ ~args.force) =>
        /\ invoked = {}
        /\ disk0.state = "json"
        /\ disk.state = "json"
        /\ SameStore(disk.store, disk0.store)

\* A second run over unchanged inputs that evaluated routines and skipped them,
\* with records in the store.
C2_Witness ==
    /\ EndedOk /\ settled /\ ~args.force
    /\ decision = "skip"
    /\ \A f \in FileSet : disk.store[f].present

(***************************************************************************)
(* C3  Missing-artifact recovery, as claimed.  When a run without --force  *)
(* ends normally, and at its start every script's digest equalled its      *)
(* stored checksum and exactly one tagged routine's figure was absent,     *)
(* exactly that routine has been invoked, no other script's record has     *)
(* changed and the script's stored checksum has not changed.               *)
(***************************************************************************)
AllCurrent0 ==
    /\ disk0.state = "json"
    /\ \A f \in FileSet :
          /\ disk0.store[f].present
          /\ disk0.store[f].hasC
          /\ disk0.store[f].checksum = checksum(f)
\* The routines whose figure was not in the output directory at the start.
Missing0 == {r \in AllTagged : Resolves(r) /\ PathOf(r) \notin dir0.entries}
OneMissing0 ==
    /\ \A r \in AllTagged : Resolves(r)
    /\ Cardinality(Missing0) = 1
RecoveredExactly ==
    /\ invoked = Missing0
    /\ \A f \in FileSet :
          /\ (\A r \in Missing0 : r[1] # f) => disk.store[f] = disk0.store[f]
          /\ disk.store[f].hasC = disk0.store[f].hasC
          /\ disk.store[f].checksum = disk0.store[f].checksum

C3_Original ==
    (EndedOk /\ ~args.force /\ AllCurrent0 /\ OneMissing0) => RecoveredExactly

(***************************************************************************)
(* C3, amended.  The same, for a routine that passes the signature check   *)
(* and records that carry both fields; and in such a run, however it ends, *)
(* no routine but that one is ever invoked.                                *)
(***************************************************************************)
C3_MissingArtifact ==
    (exit # "none" /\ ~args.force /\ AllCurrent0 /\ OneMissing0
        /\ (\A f \in FileSet : WellFormed(disk0.store[f]))
        /\ (\A r \in Missing0 : Valid(r))) =>
        /\ invoked \subseteq Missing0
        /\ EndedOk => RecoveredExactly

\* Such a run has ended, having called the one generator, with other routines
\* evaluated as well.
C3_Witness ==
    /\ EndedOk /\ ~args.force /\ AllCurrent0 /\ OneMissing0
    /\ \A f \in FileSet : WellFormed(disk0.store[f])
    /\ \A r \in Missing0 : Valid(r)
    /\ invoked # {}
    /\ Cardinality(AllTagged) > 1

(***************************************************************************)
(* C4  Force override.  In a run with --force every evaluation of a        *)
(* routine that passes the signature check and whose script has no record  *)
(* or a well-formed one invokes it, whatever the stored checksum and       *)
(* whether or not its figure exists; and when such a run ends normally,    *)
(* every discovered routine of that kind has been invoked.                 *)
(***************************************************************************)
ForcedAtEnd ==
    (EndedOk /\ args.force) =>
        \A r \in AllTagged :
            (Valid(r) /\ ~Corrupt(disk0.store[r[1]])) => r \in invoked

ForcedEvaluation ==
    (pc = "eval" /\ args.force /\ Valid(Cur) /\ ~Corrupt(meta[Cur[1]])) =>
        decision' = "run" /\ Cur \in invoked'

C4_ForceOverride == []ForcedAtEnd /\ [][ForcedEvaluation]_vars

\* A forced run has called a routine whose checksum was current and whose
\* figure was there.
C4_Witness ==
    /\ EndedOk /\ args.force
    /\ \E r \in invoked :
          /\ disk0.state = "json"
          /\ WellFormed(disk0.store[r[1]])
          /\ disk0.store[r[1]].checksum = checksum(r[1])
          /\ PathOf(r) \in dir0.entries

(***************************************************************************)
(* C5  Staleness decision rule.  Each evaluation of a routine that passes  *)
(* the signature check skips exactly when the record exists, its checksum  *)
(* equals the fresh digest, --force is off and the figure is a file; with  *)
(* a well-formed or absent record every other case runs the generator; a   *)
(* missing record is created with the digest; an existing checksum is set  *)
(* to the digest when the digest changed or --force is on, and is left as  *)
(* it is otherwise.                                                        *)
(***************************************************************************)
SkipCondition(rec, h, path) ==
    rec.present /\ rec.hasC /\ rec.checksum = h /\ ~args.force /\ IsFile(path)

DecisionRule ==
    (pc = "eval" /\ Valid(Cur)) =>
        LET f == Cur[1]
            rec == meta[f]
            h == checksum(f)
            skip == SkipCondition(rec, h, PathOf(Cur))
        IN /\ decision' = "skip" <=> skip
           /\ skip => invoked' = invoked /\ meta' = meta
           /\ (~skip /\ ~Corrupt(rec)) => decision' = "run" /\ Cur \in invoked'
           /\ ~rec.present =>
                 meta'[f].present /\ meta'[f].hasC /\ meta'[f].checksum = h
           /\ (rec.present /\ rec.hasC) =>
                 meta'[f].checksum =
                    IF rec.checksum # h \/ args.force THEN h ELSE rec.checksum
           /\ \A g \in FileSet \ {f} : meta'[g] = meta[g]

C5_DecisionRule == [][DecisionRule]_vars

\* In one run a routine was called although its script's checksum was current,
\* and a later one was skipped.
C5_Witness ==
    /\ decision = "skip"
    /\ ~args.force
    /\ \E r \in invoked :
          /\ disk0.state = "json"
          /\ WellFormed(disk0.store[r[1]])
          /\ disk0.store[r[1]].checksum = checksum(r[1])

(***************************************************************************)
(* C6  Store corruption is contained.  When a run ends normally, for every *)
(* script whose record lacked `checksum` or `dependents` at the start:     *)
(* none of its routines has been invoked, each of its routines that passes *)
(* the signature check has been reported, and the record written back is   *)
(* the record that was found.                                              *)
(***************************************************************************)
C6_CorruptionContained ==
    (EndedOk /\ disk0.state = "json") =>
        \A f \in FileSet : Corrupt(disk0.store[f]) =>
            /\ \A r \in Tagged(f) : r \notin invoked
            /\ \A r \in Tagged(f) : Valid(r) => <<r[1], r[2], "corrupt">> \in reported
            /\ disk.store[f] = disk0.store[f]

(***************************************************************************)
(* C7  Fail-fast without side effects.  A run that ended on a validation   *)
(* failure (search root, output path, unparsable store) or on a script     *)
(* that does not parse has loaded no script, invoked no routine, not       *)
(* written the store and neither created nor removed the output directory. *)
(***************************************************************************)
C7_FailFast ==
    (pc = "idle" /\ exit \in {"exit1", "badstore", "syntax"}) =>
        /\ loaded = {}
        /\ invoked = {}
        /\ disk = disk0
        /\ outDir = dir0.state

(***************************************************************************)
(* C8  Persist on normal termination.  A run that passed validation and    *)
(* discovery and in which no generator raised has ended by writing the     *)
(* store, and the file holds exactly the final in-memory store.            *)
(***************************************************************************)
C8_PersistOnNormalEnd ==
    (Ended /\ exit \notin {"exit1", "badstore", "syntax", "raised"}) =>
        /\ exit = "ok"
        /\ disk = [state |-> "json", store |-> meta]

(***************************************************************************)
(* C9  Single final write.  The metadata file changes during a run only by *)
(* the final write, which ends the run and comes after the cleanup, which  *)
(* comes after every discovered script was loaded and its last routine     *)
(* evaluated; so a run ended by a raising generator leaves the file as it  *)
(* was when the run started.                                               *)
(***************************************************************************)
AllProcessed ==
    /\ loaded = {gens[k].file : k \in 1..Len(gens)}
    /\ Len(gens) > 0 => i = Len(gens) /\ j = Len(gens[i].names)

WriteIsFinal ==
    /\ (pc # "idle" /\ disk' # disk) =>
          pc = "persist" /\ pc' = "idle" /\ exit' = "ok" /\ AllProcessed
    /\ pc' = "persist" => pc = "cleanup" /\ AllProcessed
    /\ (pc # "idle" /\ pc' = "idle" /\ exit' # "ok") => disk' = disk0

C9_SingleFinalWrite == [][WriteIsFinal]_vars

\* A generator raised after the in-memory store had been updated for it and for
\* a routine before it; the file is still the one the run found.
C9_Witness ==
    /\ pc = "idle" /\ exit = "raised"
    /\ Cardinality(invoked) > 1
    /\ disk.state = "json"
    /\ \A f \in FileSet : meta[f] # disk.store[f]

(***************************************************************************)
(* C10  Internal invariant violations do not crash the run.  When a name   *)
(* that does not resolve, or a routine without figarotag's attributes, has *)
(* been reported, the run goes on and ends normally with the store         *)
(* written; the routine is not invoked.                                    *)
(***************************************************************************)
C10_ViolationsDoNotCrash ==
    \A e \in reported : e[3] \in {"notfound", "noattr"} =>
        /\ <<e[1], e[2]>> \notin invoked
        /\ pc # "idle"
           \/ (exit = "ok" /\ disk = [state |-> "json", store |-> meta])

(***************************************************************************)
(* C11  Output-directory exit invariant.  As claimed: when a run ends      *)
(* normally and the output directory holds no artifact, the directory no   *)
(* longer exists, whatever earlier runs left in it.  An artifact is any    *)
(* entry but the ignore-marker.                                            *)
(***************************************************************************)
Artifacts == entries \ {".gitignore"}

C11_Original ==
    EndedOk => (Artifacts = {} => outDir = "absent")

(***************************************************************************)
(* C11, as the code has it (lines 283-284): when a run ends normally the   *)
(* output directory is absent or holds at least one entry; a directory     *)
(* without any entry is removed, be it one that the run created or one     *)
(* that was there before, and an ignore-marker of an earlier run is an     *)
(* entry that keeps the directory.                                         *)
(***************************************************************************)
C11_ExitInvariant ==
    EndedOk => /\ outDir \in {"absent", "dir"}
               /\ entries = {} => outDir = "absent"
               /\ outDir = "absent" => dir0.entries = {}

\* A directory that was there before the run is removed: the generators that
\* the run called left no file.
C11_Witness ==
    /\ EndedOk
    /\ dir0.state = "dir"
    /\ invoked # {}
    /\ outDir = "absent"

(***************************************************************************)
(* C12  Ignore-marker rule.  The step that follows the processing of all   *)
(* units leaves .gitignore in the output directory when --gitignore was    *)
(* given and the directory holds at least one entry, and leaves the        *)
(* directory's entries alone otherwise; the marker appears in no other     *)
(* step, hence never in an empty directory and never without the flag.     *)
(***************************************************************************)
MarkerDue == args.gitignore /\ entries # {}

MarkerRule ==
    /\ pc = "cleanup" /\ MarkerDue =>
          outDir' = "dir" /\ entries' = entries \cup {".gitignore"}
    /\ pc = "cleanup" /\ ~MarkerDue => entries' = entries
    /\ ".gitignore" \in entries' \ entries => pc = "cleanup" /\ MarkerDue

C12_IgnoreMarker == [][MarkerRule]_vars

\* A run with --gitignore has ended and its directory, which had no marker,
\* has one; the run itself produced the entry that made the directory non-empty.
C12_Witness ==
    /\ EndedOk
    /\ args.gitignore
    /\ dir0.entries = {}
    /\ ".gitignore" \in entries

(***************************************************************************)
(* C13  Grow-only store.  When a run ends normally, every record that the  *)
(* metadata file held when the run started is still in it, and every path  *)
(* of its dependents is still among the record's dependents, whatever was  *)
(* edited, added, removed or deleted before the run and with or without    *)
(* --force.                                                                *)
(***************************************************************************)
Paths(rec) == {rec.dependents[k] : k \in 1..Len(rec.dependents)}

C13_GrowOnly ==
    EndedOk /\ disk0.state = "json" =>
        /\ disk.state = "json"
        /\ \A f \in FileSet :
              disk0.store[f].present =>
                  /\ disk.store[f].present
                  /\ Paths(disk0.store[f]) \subseteq Paths(disk.store[f])

\* The run found a script changed that no longer has the function of one of
\* its dependents, called a function of it, and kept that dependent.
C13_Witness ==
    /\ EndedOk
    /\ disk0.state = "json"
    /\ \E f \in FileSet :
          /\ Changed0(f)
          /\ \E r \in Tagged(f) : r \in invoked
          /\ \E p \in Paths(disk0.store[f]) :
                /\ \A r \in Tagged(f) : Resolves(r) => Resolved(PathOf(r)) # p
                /\ p \in Paths(disk.store[f])

(***************************************************************************)
(* C14  Signature mismatch isolated.  A discovered function that resolves  *)
(* and does not take exactly one parameter annotated pathlib.Path is not   *)
(* called and leaves the store as it is: the evaluation reports it and     *)
(* the loop goes on to the next function of the script or to the next      *)
(* script.  No function in the set of called ones has such a signature.    *)
(***************************************************************************)
Mismatch(r) ==
    /\ hasattr(src[r[1]], r[2])
    /\ LET g == getattr(src[r[1]], r[2])
       IN g.nparams # 1 \/ g.annot # "Path"

MismatchStep ==
    pc = "eval" /\ Mismatch(Cur) =>
        /\ invoked' = invoked
        /\ meta' = meta
        /\ disk' = disk
        /\ entries' = entries
        /\ exit' = exit
        /\ <<Cur[1], Cur[2], "signature">> \in reported'
        /\ IF j < Len(gens[i].names)
           THEN pc' = "eval" /\ i' = i /\ j' = j + 1
           ELSE IF i < Len(gens)
           THEN pc' = "load" /\ i' = i + 1
           ELSE pc' = "cleanup"

NoMismatchInvoked ==
    pc # "idle" => \A r \in invoked : ~Mismatch(r)

C14_MismatchIsolated == []NoMismatchInvoked /\ [][MismatchStep]_vars

\* A run has ended normally in which a function was rejected for its signature
\* while a later function of the same script and one of a later script were called.
C14_Witness ==
    /\ EndedOk
    /\ \E r \in AllTagged :
          /\ Mismatch(r)
          /\ <<r[1], r[2], "signature">> \in reported
          /\ r \notin invoked
          /\ \E q \in Tagged(r[1]) : q # r /\ q \in invoked
          /\ \E q \in AllTagged : q[1] # r[1] /\ q \in invoked

(***************************************************************************)
(* C15  Discovery correctness.  As claimed: once the scripts are parsed,   *)
(* the discovery result holds, for every script with at least one tagged   *)
(* top-level function and for no other, the names of exactly its tagged    *)
(* top-level functions, each name once: no name of an untagged or nested   *)
(* function, no name twice for a function tagged twice, as many names as   *)
(* tagged functions.                                                       *)
(***************************************************************************)
TopLevelTagged(c) ==
    LET tagged == SelectSeq(Catalogue[c].defs, LAMBDA g : g.tags > 0)
    IN [k \in 1..Len(tagged) |-> tagged[k].name]

ExpectedDiscovery ==
    LET found == [k \in 1..Len(Files) |->
                     [file |-> Files[k], names |-> TopLevelTagged(src[Files[k]])]]
    IN SelectSeq(found, LAMBDA e : Len(e.names) > 0)

C15_Discovery ==
    pc \in {"load", "eval", "cleanup", "persist"} => gens = ExpectedDiscovery

(***************************************************************************)
(* C16  Idempotent dependent add.  Whenever the decision for a function is *)
(* to call it, the resolved path of its figure is in the dependents of its *)
(* script's record exactly once at the moment of the call; and no record   *)
(* of the store in memory or on disk ever lists a path twice.              *)
(***************************************************************************)
Count(x, s) == Cardinality({k \in 1..Len(s) : s[k] = x})

NoDuplicates(store) ==
    \A f \in FileSet : \A p \in Paths(store[f]) : Count(p, store[f].dependents) = 1

ListedOnceAtCall ==
    pc = "eval" /\ decision' = "run" =>
        Count(Resolved(PathOf(Cur)), meta'[Cur[1]].dependents) = 1

C16_IdempotentAdd ==
    [](NoDuplicates(meta) /\ NoDuplicates(disk.store)) /\ [][ListedOnceAtCall]_vars

\* The same function has been called a second time in one run, for a path that
\* the first call had recorded, next to a dependent of an earlier run.
C16_Witness ==
    /\ pc = "cleanup"
    /\ decision = "run"
    /\ j = 2
    /\ gens[i].names[1] = gens[i].names[2]
    /\ Len(meta[gens[i].file].dependents) > 1

(***************************************************************************)
(* C17  Dependents provenance.  A path enters the dependents of a script's *)
(* record, in memory or on disk, only in the evaluation of a tagged        *)
(* function discovered in that very script, and the path is the resolved   *)
(* path of that function's figure.  A store that starts absent therefore   *)
(* never lists a path under a script none of whose functions resolved to   *)
(* it.                                                                     *)
(***************************************************************************)
Known(f) == Paths(meta[f]) \cup Paths(disk.store[f])

Provenance ==
    \A f \in FileSet :
        LET new == (Paths(meta'[f]) \cup Paths(disk'.store[f])) \ Known(f)
        IN new # {} =>
              /\ pc = "eval"
              /\ Cur[1] = f
              /\ Cur \in Tagged(f)
              /\ Resolves(Cur)
              /\ new = {Resolved(PathOf(Cur))}

C17_Provenance == [][Provenance]_vars

\* A run that found no metadata file has ended normally and has recorded
\* dependents for both scripts.
C17_Witness ==
    /\ EndedOk
    /\ disk0.state = "absent"
    /\ \A f \in FileSet : Paths(disk.store[f]) # {}

(***************************************************************************)
(* C18  Cache soundness.  As claimed: as long as nothing but figaro has    *)
(* touched the output directory and the metadata file, a function is       *)
(* skipped only when the file at its figure's path was written by an       *)
(* earlier call of that function, made when its script had the digest      *)
(* that it has now.                                                        *)
(***************************************************************************)
SoundSkip ==
    pc = "eval" /\ decision' = "skip" /\ origin.toolOnly =>
        <<PathOf(Cur), Cur[1], Cur[2], checksum(Cur[1])>> \in origin.made

C18_CacheSoundness == [][SoundSkip]_vars

(***************************************************************************)
(* C19  Skip is a no-op on the store.  The evaluation of a function that   *)
(* ends in the decision to skip leaves the store in memory exactly as it   *)
(* was: the record of its script keeps its checksum and its dependents,    *)
(* also when the figure's path is not among them, and no other record      *)
(* changes; the metadata file is not written either.                       *)
(***************************************************************************)
SkipTouchesNothing ==
    pc = "eval" /\ decision' = "skip" =>
        /\ meta' = meta
        /\ disk' = disk
        /\ \A f \in FileSet :
              /\ meta'[f].checksum = meta[f].checksum
              /\ meta'[f].dependents = meta[f].dependents

C19_SkipNoOp == [][SkipTouchesNothing]_vars

\* A run has ended normally in which a function was skipped whose figure's
\* path the record of its script does not list, and still does not list.
C19_Witness ==
    /\ EndedOk
    /\ \E r \in AllTagged :
          /\ Valid(r)
          /\ r \notin invoked
          /\ WellFormed(disk.store[r[1]])
          /\ Paths(disk.store[r[1]]) # {}
          /\ Resolved(PathOf(r)) \notin Paths(disk.store[r[1]])

(***************************************************************************)
(* C20  Checksum currency.  When a run ends normally, every script with at *)
(* least one function that passed the signature check and was evaluated    *)
(* in the run, and whose record held a checksum when the run started or    *)
(* that had no record then, has a record on disk whose checksum is the     *)
(* digest of the script computed in the run.                               *)
(***************************************************************************)
Record0(f) == IF disk0.state = "json" THEN disk0.store[f] ELSE NoRec

C20_ChecksumCurrency ==
    EndedOk =>
        \A f \in FileSet :
            /\ \E r \in Tagged(f) : Valid(r)
            /\ ~Record0(f).present \/ Record0(f).hasC
            => /\ disk.state = "json"
               /\ disk.store[f].present
               /\ disk.store[f].hasC
               /\ disk.store[f].checksum = checksum(f)

\* A run has ended normally with a script whose record held the checksum of
\* another content and no dependents: its function was reported, not called,
\* and the checksum on disk is the script's digest all the same.
C20_Witness ==
    /\ EndedOk
    /\ \E g \in FileSet :
          /\ \E r \in Tagged(g) : Valid(r) /\ <<r[1], r[2], "corrupt">> \in reported
          /\ Record0(g).hasC /\ ~Record0(g).hasD
          /\ Record0(g).checksum # checksum(g)
          /\ disk.store[g].checksum = checksum(g)

====
